---- MODULE Spec2Model ----
(***************************************************************************)
(* Network methods for fetching blockchain test vectors                    *)
(* (zebra-chain/src/test_utils/vectors.rs), together with the genesis and  *)
(* first-halving consensus constants.                                      *)
(*                                                                         *)
(* The program has no mutable state of its own: every method of            *)
(* `impl Network` reads process-wide statics.  The model keeps the statics *)
(* in the variable `statics` (so that a method that wrote to them would be *)
(* seen), and records in `last` the most recent call any caller made       *)
(* together with the value it returned.  The methods keep nothing per      *)
(* caller, so the calls of several threads appear here as one sequence of  *)
(* calls in an arbitrary order.                                            *)
(*                                                                         *)
(* Values:                                                                 *)
(*   &[u8], [u8; 32]      a sequence of bytes (0..255)                     *)
(*   BTreeMap<u32, V>     a function from a finite set of heights to V     *)
(*   &'static BTreeMap    Ref(name): the name of the static referred to    *)
(*   btree_map::Iter      the sequence of <<key, value>> pairs the         *)
(*                        iterator yields, in ascending key order          *)
(*   Option<T>            <<>> (None) or <<x>> (Some(x))                   *)
(*   Result<T, E>         Ok(x) or Err(variant, payload)                   *)
(***************************************************************************)
EXTENDS Integers, Sequences, FiniteSets, TLC

VARIABLES statics, canopyMainnet, last

vars == <<statics, canopyMainnet, last>>

----------------------------------------------------------------------------
(* Bounds of the model.                                                    *)

\* the continuous chain tables hold heights 0..MaxChain
MaxChain == 2
\* candidate values next to a known height: h + 1 .. h + NearDelta
NearDelta == 1

Networks == {"Mainnet", "Testnet"}

\* The u32 values callers pass as main_bytes / test_bytes to get_block_bytes:
\* every height its match arms name (for either network), a height only the
\* other lookup knows, values right beside a known height, 0, and the largest
\* value the model checker's integers hold (u32 values above it take the
\* same `_` arms).
BlockCandidates ==
    {653599, 982681, 583999, 925483}
        \cup {1046400, 0, 2147483647}
        \cup {653599 + d : d \in 1..NearDelta}

\* The same for get_block_sapling_roots_bytes.
SaplingCandidates ==
    {1046400, 1116000}
        \cup {653599, 0, 2147483647}
        \cup {1116000 + d : d \in 1..NearDelta}

----------------------------------------------------------------------------
(* Values.                                                                 *)

None == <<>>
Some(x) == <<x>>

Ok(x) == [ok |-> TRUE, val |-> x]
Err(variant, payload) == [ok |-> FALSE, variant |-> variant, payload |-> payload]

Ref(name) == [static |-> name]
Deref(r) == statics[r.static]

\* btree_map::Iter: the entries of the map in ascending key order.
Iter(m) ==
    LET keys == DOMAIN m
    IN  [i \in 1..Cardinality(keys) |->
            LET k == CHOOSE k \in keys : Cardinality({j \in keys : j < k}) = i - 1
            IN  <<k, m[k]>>]

\* BTreeMap::get(&key).cloned()
MapGet(m, key) == IF key \in DOMAIN m THEN Some(m[key]) ELSE None

----------------------------------------------------------------------------
(* Fixture data (zebra_test::vectors).  A serialized block is modelled by  *)
(* its version byte, the little-endian coinbase height and one byte that   *)
(* stands for the rest of the block.                                       *)

U32LE(h) == <<h % 256, (h \div 256) % 256, (h \div 65536) % 256, (h \div 16777216) % 256>>

BlockBytes(height, rest) == <<4>> \o U32LE(height) \o <<rest>>

RootBytes(b) == [i \in 1..32 |-> b]

\* Blocks of the main chain end in byte 1, blocks of the test chain in byte 2
\* (17 and 18 in the continuous chain tables).

\* sparse block tables: with or without a block at height 0
SparseTables(tag, heights) ==
    { [h \in (g \cup heights) |-> BlockBytes(h, tag)] : g \in {{}, {0}} }

ContinuousTable(tag) == [h \in 0..MaxChain |-> BlockBytes(h, tag + 16)]

\* Block::zcash_deserialize: parses the version, the height and the rest.
zcash_deserialize_into(bytes) ==
    IF Len(bytes) = 6 /\ bytes[1] = 4
    THEN Ok([version |-> bytes[1],
             coinbase_height |-> bytes[2] + 256 * bytes[3] + 65536 * bytes[4]
                                   + 16777216 * bytes[5],
             rest |-> bytes[6]])
    ELSE Err("Parse", "invalid block")

\* The statics the methods read.
StaticsChoices ==
    { [MAINNET_BLOCKS |-> mb,
       TESTNET_BLOCKS |-> tb,
       CONTINUOUS_MAINNET_BLOCKS |-> ContinuousTable(1),
       CONTINUOUS_TESTNET_BLOCKS |-> ContinuousTable(2),
       MAINNET_FINAL_SAPLING_ROOTS |-> [h \in {1, 1046400} |-> RootBytes(IF h = 1 THEN 16 ELSE 17)],
       TESTNET_FINAL_SAPLING_ROOTS |-> [h \in {1, 1116000} |-> RootBytes(IF h = 1 THEN 32 ELSE 33)],
       MAINNET_FINAL_SPROUT_ROOTS |-> [h \in {396} |-> RootBytes(48)],
       TESTNET_FINAL_SPROUT_ROOTS |-> [h \in {2259} |-> RootBytes(64)],
       BLOCK_MAINNET_653599_BYTES |-> BlockBytes(653599, 1),
       BLOCK_MAINNET_982681_BYTES |-> BlockBytes(982681, 1),
       BLOCK_MAINNET_1046400_BYTES |-> BlockBytes(1046400, 1),
       BLOCK_TESTNET_583999_BYTES |-> BlockBytes(583999, 2),
       BLOCK_TESTNET_925483_BYTES |-> BlockBytes(925483, 2),
       BLOCK_TESTNET_1116000_BYTES |-> BlockBytes(1116000, 2),
       SAPLING_FINAL_ROOT_MAINNET_1046400_BYTES |-> RootBytes(17),
       SAPLING_FINAL_ROOT_TESTNET_1116000_BYTES |-> RootBytes(33)]
      : mb \in SparseTables(1, {1, 653599}),
        tb \in SparseTables(2, {1, 583999}) }

MAINNET_BLOCKS == statics.MAINNET_BLOCKS
TESTNET_BLOCKS == statics.TESTNET_BLOCKS
CONTINUOUS_MAINNET_BLOCKS == statics.CONTINUOUS_MAINNET_BLOCKS
CONTINUOUS_TESTNET_BLOCKS == statics.CONTINUOUS_TESTNET_BLOCKS
MAINNET_FINAL_SAPLING_ROOTS == statics.MAINNET_FINAL_SAPLING_ROOTS
TESTNET_FINAL_SAPLING_ROOTS == statics.TESTNET_FINAL_SAPLING_ROOTS
MAINNET_FINAL_SPROUT_ROOTS == statics.MAINNET_FINAL_SPROUT_ROOTS
TESTNET_FINAL_SPROUT_ROOTS == statics.TESTNET_FINAL_SPROUT_ROOTS
BLOCK_MAINNET_653599_BYTES == statics.BLOCK_MAINNET_653599_BYTES
BLOCK_MAINNET_982681_BYTES == statics.BLOCK_MAINNET_982681_BYTES
BLOCK_MAINNET_1046400_BYTES == statics.BLOCK_MAINNET_1046400_BYTES
BLOCK_TESTNET_583999_BYTES == statics.BLOCK_TESTNET_583999_BYTES
BLOCK_TESTNET_925483_BYTES == statics.BLOCK_TESTNET_925483_BYTES
BLOCK_TESTNET_1116000_BYTES == statics.BLOCK_TESTNET_1116000_BYTES
SAPLING_FINAL_ROOT_MAINNET_1046400_BYTES == statics.SAPLING_FINAL_ROOT_MAINNET_1046400_BYTES
SAPLING_FINAL_ROOT_TESTNET_1116000_BYTES == statics.SAPLING_FINAL_ROOT_TESTNET_1116000_BYTES

----------------------------------------------------------------------------
(* parameters/genesis.rs and parameters/network/constants.rs               *)

\* A slip in the array literal: one byte of the hash is not zero.
GENESIS_PREVIOUS_BLOCK_HASH_OneSet == [i \in 1..32 |-> IF i = 1 THEN 1 ELSE 0]

\* block::Hash([0; 32])
GENESIS_PREVIOUS_BLOCK_HASH == [i \in 1..32 |-> 0]

\* A digit dropped from the literal.
FIRST_HALVING_TESTNET_Short == 1116000 \div 10

FIRST_HALVING_TESTNET == 1116000

\* Heights the main network's first halving (Canopy activation) may be set to.
CanopyChoices == {1046400, 1046401}

\* The first halving height of a network: a match over the variants.
height_for_first_halving(network) ==
    CASE network = "Mainnet" -> canopyMainnet
      [] network = "Testnet" -> FIRST_HALVING_TESTNET

----------------------------------------------------------------------------
(* impl Network (test_utils/vectors.rs)                                    *)

is_mainnet(self) ==
    CASE self = "Mainnet" -> TRUE
      [] self = "Testnet" -> FALSE

\* The arms of the match copied from is_mainnet and only one of them flipped.
is_default_testnet_BothTrue(self) ==
    CASE self = "Mainnet" -> TRUE
      [] self = "Testnet" -> TRUE

is_default_testnet(self) ==
    CASE self = "Mainnet" -> FALSE
      [] self = "Testnet" -> TRUE

get_block_iter(self) ==
    IF is_mainnet(self) THEN Iter(MAINNET_BLOCKS) ELSE Iter(TESTNET_BLOCKS)

get_block_map(self) ==
    IF is_mainnet(self) THEN Ref("MAINNET_BLOCKS") ELSE Ref("TESTNET_BLOCKS")

\* Both branches read the main network's table.
get_gen_block_MainOnly(self) ==
    IF is_mainnet(self) THEN MapGet(MAINNET_BLOCKS, 0) ELSE MapGet(MAINNET_BLOCKS, 0)

get_gen_block(self) ==
    IF is_mainnet(self) THEN MapGet(MAINNET_BLOCKS, 0) ELSE MapGet(TESTNET_BLOCKS, 0)

\* The test network's match also accepts a height of the main network.
get_block_bytes_CrossNet(self, main_bytes, test_bytes) ==
    IF is_mainnet(self)
    THEN CASE main_bytes = 653599 -> zcash_deserialize_into(BLOCK_MAINNET_653599_BYTES)
           [] main_bytes = 982681 -> zcash_deserialize_into(BLOCK_MAINNET_982681_BYTES)
           [] OTHER -> Err("NotACachedMainNetBlock", main_bytes)
    ELSE CASE test_bytes = 583999 -> zcash_deserialize_into(BLOCK_TESTNET_583999_BYTES)
           [] test_bytes = 925483 -> zcash_deserialize_into(BLOCK_TESTNET_925483_BYTES)
           [] test_bytes = 653599 -> zcash_deserialize_into(BLOCK_MAINNET_653599_BYTES)
           [] OTHER -> Err("NotACachedTestNetBlock", test_bytes)

\* On the main network an unknown main_bytes falls through to the match on
\* test_bytes instead of failing.
get_block_bytes_Fallthrough(self, main_bytes, test_bytes) ==
    IF is_mainnet(self) /\ main_bytes \in {653599, 982681}
    THEN CASE main_bytes = 653599 -> zcash_deserialize_into(BLOCK_MAINNET_653599_BYTES)
           [] main_bytes = 982681 -> zcash_deserialize_into(BLOCK_MAINNET_982681_BYTES)
    ELSE CASE test_bytes = 583999 -> zcash_deserialize_into(BLOCK_TESTNET_583999_BYTES)
           [] test_bytes = 925483 -> zcash_deserialize_into(BLOCK_TESTNET_925483_BYTES)
           [] is_mainnet(self) -> Err("NotACachedMainNetBlock", main_bytes)
           [] OTHER -> Err("NotACachedTestNetBlock", test_bytes)

get_block_bytes(self, main_bytes, test_bytes) ==
    IF is_mainnet(self)
    THEN CASE main_bytes = 653599 -> zcash_deserialize_into(BLOCK_MAINNET_653599_BYTES)
           [] main_bytes = 982681 -> zcash_deserialize_into(BLOCK_MAINNET_982681_BYTES)
           [] OTHER -> Err("NotACachedMainNetBlock", main_bytes)
    ELSE CASE test_bytes = 583999 -> zcash_deserialize_into(BLOCK_TESTNET_583999_BYTES)
           [] test_bytes = 925483 -> zcash_deserialize_into(BLOCK_TESTNET_925483_BYTES)
           [] OTHER -> Err("NotACachedTestNetBlock", test_bytes)

get_blockchain_iter(self) ==
    IF is_mainnet(self)
    THEN Iter(CONTINUOUS_MAINNET_BLOCKS)
    ELSE Iter(CONTINUOUS_TESTNET_BLOCKS)

get_blockchain_map(self) ==
    IF is_mainnet(self)
    THEN Ref("CONTINUOUS_MAINNET_BLOCKS")
    ELSE Ref("CONTINUOUS_TESTNET_BLOCKS")

get_block_sapling_roots_iter(self) ==
    IF is_mainnet(self)
    THEN <<Iter(MAINNET_BLOCKS), MAINNET_FINAL_SAPLING_ROOTS>>
    ELSE <<Iter(TESTNET_BLOCKS), TESTNET_FINAL_SAPLING_ROOTS>>

\* The main network's blocks paired with the test network's roots.
get_block_sapling_roots_map_Mixed(self) ==
    IF is_mainnet(self)
    THEN <<Ref("MAINNET_BLOCKS"), Ref("TESTNET_FINAL_SAPLING_ROOTS")>>
    ELSE <<Ref("TESTNET_BLOCKS"), Ref("TESTNET_FINAL_SAPLING_ROOTS")>>

get_block_sapling_roots_map(self) ==
    IF is_mainnet(self)
    THEN <<Ref("MAINNET_BLOCKS"), Ref("MAINNET_FINAL_SAPLING_ROOTS")>>
    ELSE <<Ref("TESTNET_BLOCKS"), Ref("TESTNET_FINAL_SAPLING_ROOTS")>>

\* The main network's block paired with the test network's root, and the
\* test network's error reported in the main network's family.
get_block_sapling_roots_bytes_Mixed(self, main_bytes, test_bytes) ==
    IF is_mainnet(self)
    THEN CASE main_bytes = 1046400 ->
                Ok(<<BLOCK_MAINNET_1046400_BYTES, SAPLING_FINAL_ROOT_TESTNET_1116000_BYTES>>)
           [] OTHER -> Err("NotACachedMainNetSaplingRootBytes", main_bytes)
    ELSE CASE test_bytes = 1116000 ->
                Ok(<<BLOCK_TESTNET_1116000_BYTES, SAPLING_FINAL_ROOT_TESTNET_1116000_BYTES>>)
           [] OTHER -> Err("NotACachedMainNetSaplingRootBytes", test_bytes)

get_block_sapling_roots_bytes(self, main_bytes, test_bytes) ==
    IF is_mainnet(self)
    THEN CASE main_bytes = 1046400 ->
                Ok(<<BLOCK_MAINNET_1046400_BYTES, SAPLING_FINAL_ROOT_MAINNET_1046400_BYTES>>)
           [] OTHER -> Err("NotACachedMainNetSaplingRootBytes", main_bytes)
    ELSE CASE test_bytes = 1116000 ->
                Ok(<<BLOCK_TESTNET_1116000_BYTES, SAPLING_FINAL_ROOT_TESTNET_1116000_BYTES>>)
           [] OTHER -> Err("NotACachedTestNetSaplingRootBytes", test_bytes)

MAINNET_FIRST_JOINSPLIT_HEIGHT == 396
TESTNET_FIRST_JOINSPLIT_HEIGHT == 2259

\* The test network's branch returns the main network's JoinSplit height.
get_block_sprout_roots_height_MainHeight(self) ==
    IF is_mainnet(self)
    THEN <<Ref("MAINNET_BLOCKS"), Ref("MAINNET_FINAL_SPROUT_ROOTS"),
           MAINNET_FIRST_JOINSPLIT_HEIGHT>>
    ELSE <<Ref("TESTNET_BLOCKS"), Ref("TESTNET_FINAL_SPROUT_ROOTS"),
           MAINNET_FIRST_JOINSPLIT_HEIGHT>>

get_block_sprout_roots_height(self) ==
    IF is_mainnet(self)
    THEN <<Ref("MAINNET_BLOCKS"), Ref("MAINNET_FINAL_SPROUT_ROOTS"),
           MAINNET_FIRST_JOINSPLIT_HEIGHT>>
    ELSE <<Ref("TESTNET_BLOCKS"), Ref("TESTNET_FINAL_SPROUT_ROOTS"),
           TESTNET_FIRST_JOINSPLIT_HEIGHT>>

----------------------------------------------------------------------------
(* The state machine: callers invoke the methods in any order.             *)

\* The record of a call; `again` tells that the call before it was the same
\* method with the same arguments.
Call(op, net, args, result) ==
    [op |-> op, net |-> net, args |-> args, result |-> result,
     again |-> (last.op = op /\ last.net = net /\ last.args = args)]

\* What calling `call.op` with `call`'s arguments returns in the current state.
Invoke(call) ==
    CASE call.op = "is_mainnet" -> is_mainnet(call.net)
      [] call.op = "is_default_testnet" -> is_default_testnet(call.net)
      [] call.op = "get_block_iter" -> get_block_iter(call.net)
      [] call.op = "get_block_map" -> get_block_map(call.net)
      [] call.op = "get_gen_block" -> get_gen_block(call.net)
      [] call.op = "get_block_bytes" ->
            get_block_bytes(call.net, call.args[1], call.args[2])
      [] call.op = "get_blockchain_iter" -> get_blockchain_iter(call.net)
      [] call.op = "get_blockchain_map" -> get_blockchain_map(call.net)
      [] call.op = "get_block_sapling_roots_iter" -> get_block_sapling_roots_iter(call.net)
      [] call.op = "get_block_sapling_roots_map" -> get_block_sapling_roots_map(call.net)
      [] call.op = "get_block_sapling_roots_bytes" ->
            get_block_sapling_roots_bytes(call.net, call.args[1], call.args[2])
      [] call.op = "get_block_sprout_roots_height" ->
            get_block_sprout_roots_height(call.net)
      [] call.op = "GENESIS_PREVIOUS_BLOCK_HASH" -> GENESIS_PREVIOUS_BLOCK_HASH
      [] call.op = "height_for_first_halving" -> height_for_first_halving(call.net)

Init ==
    /\ statics \in StaticsChoices
    /\ canopyMainnet \in CanopyChoices
    /\ last = [op |-> "none", net |-> "Mainnet", args |-> <<>>, result |-> None,
               again |-> FALSE]

IsMainnet(n) ==
    /\ last' = Call("is_mainnet", n, <<>>, is_mainnet(n))
    /\ UNCHANGED <<statics, canopyMainnet>>

IsDefaultTestnet(n) ==
    /\ last' = Call("is_default_testnet", n, <<>>, is_default_testnet(n))
    /\ UNCHANGED <<statics, canopyMainnet>>

GetBlockIter(n) ==
    /\ last' = Call("get_block_iter", n, <<>>, get_block_iter(n))
    /\ UNCHANGED <<statics, canopyMainnet>>

GetBlockMap(n) ==
    /\ last' = Call("get_block_map", n, <<>>, get_block_map(n))
    /\ UNCHANGED <<statics, canopyMainnet>>

\* The lookup takes the entry out of the table (BTreeMap::remove for get).
GetGenBlock_Take(n) ==
    /\ last' = Call("get_gen_block", n, <<>>, get_gen_block(n))
    /\ statics' =
        LET name == IF is_mainnet(n) THEN "MAINNET_BLOCKS" ELSE "TESTNET_BLOCKS"
        IN  [statics EXCEPT ![name] = [h \in (DOMAIN @) \ {0} |-> @[h]]]
    /\ UNCHANGED canopyMainnet

GetGenBlock(n) ==
    /\ last' = Call("get_gen_block", n, <<>>, get_gen_block(n))
    /\ UNCHANGED <<statics, canopyMainnet>>

GetBlockBytes(n, m, t) ==
    /\ last' = Call("get_block_bytes", n, <<m, t>>, get_block_bytes(n, m, t))
    /\ UNCHANGED <<statics, canopyMainnet>>

GetBlockchainIter(n) ==
    /\ last' = Call("get_blockchain_iter", n, <<>>, get_blockchain_iter(n))
    /\ UNCHANGED <<statics, canopyMainnet>>

GetBlockchainMap(n) ==
    /\ last' = Call("get_blockchain_map", n, <<>>, get_blockchain_map(n))
    /\ UNCHANGED <<statics, canopyMainnet>>

GetBlockSaplingRootsIter(n) ==
    /\ last' = Call("get_block_sapling_roots_iter", n, <<>>,
                    get_block_sapling_roots_iter(n))
    /\ UNCHANGED <<statics, canopyMainnet>>

GetBlockSaplingRootsMap(n) ==
    /\ last' = Call("get_block_sapling_roots_map", n, <<>>,
                    get_block_sapling_roots_map(n))
    /\ UNCHANGED <<statics, canopyMainnet>>

GetBlockSaplingRootsBytes(n, m, t) ==
    /\ last' = Call("get_block_sapling_roots_bytes", n, <<m, t>>,
                    get_block_sapling_roots_bytes(n, m, t))
    /\ UNCHANGED <<statics, canopyMainnet>>

GetBlockSproutRootsHeight(n) ==
    /\ last' = Call("get_block_sprout_roots_height", n, <<>>,
                    get_block_sprout_roots_height(n))
    /\ UNCHANGED <<statics, canopyMainnet>>

GenesisPreviousBlockHash(n) ==
    /\ last' = Call("GENESIS_PREVIOUS_BLOCK_HASH", n, <<>>, GENESIS_PREVIOUS_BLOCK_HASH)
    /\ UNCHANGED <<statics, canopyMainnet>>

HeightForFirstHalving(n) ==
    /\ last' = Call("height_for_first_halving", n, <<>>, height_for_first_halving(n))
    /\ UNCHANGED <<statics, canopyMainnet>>

Next ==
    \E n \in Networks :
        \/ IsMainnet(n)
        \/ IsDefaultTestnet(n)
        \/ GetBlockIter(n)
        \/ GetBlockMap(n)
        \/ GetGenBlock(n)
        \/ \E m \in BlockCandidates, t \in BlockCandidates : GetBlockBytes(n, m, t)
        \/ GetBlockchainIter(n)
        \/ GetBlockchainMap(n)
        \/ GetBlockSaplingRootsIter(n)
        \/ GetBlockSaplingRootsMap(n)
        \/ \E m \in SaplingCandidates, t \in SaplingCandidates : GetBlockSaplingRootsBytes(n, m, t)
        \/ GetBlockSproutRootsHeight(n)
        \/ GenesisPreviousBlockHash(n)
        \/ HeightForFirstHalving(n)

Spec == Init /\ [][Next]_vars

----------------------------------------------------------------------------
(* Properties.                                                             *)

\* C1: get_block_bytes succeeds exactly when the candidate that applies to
\* the network is one of that network's known heights ({653599, 982681} on
\* Mainnet, {583999, 925483} on Testnet); otherwise it fails with the
\* network's own NotACached...Block error carrying that candidate.
C1_BlockBytesExactMatch ==
    last.op = "get_block_bytes" =>
        LET main == last.net = "Mainnet"
            v == IF main THEN last.args[1] ELSE last.args[2]
            known == IF main THEN {653599, 982681} ELSE {583999, 925483}
            family == IF main THEN "NotACachedMainNetBlock" ELSE "NotACachedTestNetBlock"
        IN  IF v \in known
            THEN last.result.ok
            ELSE last.result = [ok |-> FALSE, variant |-> family, payload |-> v]

\* A height known only to Mainnet was passed as the Testnet candidate, and
\* the call failed.
C1_Witness ==
    /\ last.op = "get_block_bytes"
    /\ last.net = "Testnet"
    /\ last.args[2] = 653599
    /\ ~last.result.ok

\* C2: get_block_sapling_roots_bytes succeeds exactly when the candidate that
\* applies to the network is the network's single known height (1046400 on
\* Mainnet, 1116000 on Testnet), returning that network's block bytes with
\* that network's 32-byte Sapling root; otherwise it fails with the network's
\* own NotACached...SaplingRootBytes error carrying that candidate.
C2_SaplingRootsBytesExactMatch ==
    last.op = "get_block_sapling_roots_bytes" =>
        LET main == last.net = "Mainnet"
            v == IF main THEN last.args[1] ELSE last.args[2]
            known == IF main THEN 1046400 ELSE 1116000
            block == IF main THEN statics.BLOCK_MAINNET_1046400_BYTES
                             ELSE statics.BLOCK_TESTNET_1116000_BYTES
            root == IF main THEN statics.SAPLING_FINAL_ROOT_MAINNET_1046400_BYTES
                            ELSE statics.SAPLING_FINAL_ROOT_TESTNET_1116000_BYTES
            family == IF main THEN "NotACachedMainNetSaplingRootBytes"
                              ELSE "NotACachedTestNetSaplingRootBytes"
        IN  IF v = known
            THEN /\ last.result = [ok |-> TRUE, val |-> <<block, root>>]
                 /\ Len(last.result.val[2]) = 32
            ELSE last.result = [ok |-> FALSE, variant |-> family, payload |-> v]

\* Testnet's height was passed as the Mainnet candidate, and the call failed.
C2_Witness ==
    /\ last.op = "get_block_sapling_roots_bytes"
    /\ last.net = "Mainnet"
    /\ last.args[1] = 1116000
    /\ ~last.result.ok

\* C3: in get_block_bytes and get_block_sapling_roots_bytes the candidate of
\* the inactive network does not influence the outcome: the same call with
\* any other value in its place returns the same result.
C3_InactiveCandidateIgnored ==
    /\ last.op = "get_block_bytes" =>
         \A v \in BlockCandidates :
            IF last.net = "Mainnet"
            THEN get_block_bytes(last.net, last.args[1], v) = last.result
            ELSE get_block_bytes(last.net, v, last.args[2]) = last.result
    /\ last.op = "get_block_sapling_roots_bytes" =>
         \A v \in SaplingCandidates :
            IF last.net = "Mainnet"
            THEN get_block_sapling_roots_bytes(last.net, last.args[1], v) = last.result
            ELSE get_block_sapling_roots_bytes(last.net, v, last.args[2]) = last.result

\* On Mainnet an unknown main value was passed with a test value Testnet
\* knows, and the call failed for the main value.
C3_Witness ==
    /\ last.op = "get_block_bytes"
    /\ last.net = "Mainnet"
    /\ last.args = <<0, 583999>>
    /\ ~last.result.ok
    /\ last.result.payload = 0

\* C4: for every network exactly one of is_mainnet and is_default_testnet is
\* true: is_mainnet exactly for Mainnet, is_default_testnet exactly for
\* Testnet.
C4_ExactlyOnePredicate ==
    /\ last.op = "is_mainnet" =>
         /\ last.result = (last.net = "Mainnet")
         /\ last.result # is_default_testnet(last.net)
    /\ last.op = "is_default_testnet" =>
         /\ last.result = (last.net = "Testnet")
         /\ last.result # is_mainnet(last.net)

\* is_default_testnet was asked of Mainnet and answered no.
C4_Witness ==
    /\ last.op = "is_default_testnet"
    /\ last.net = "Mainnet"
    /\ last.result = FALSE

\* C5: get_block_sprout_roots_height returns the network's own sparse block
\* table, the network's own Sprout root table and the network's first
\* JoinSplit height: 396 on Mainnet, 2259 on Testnet.
C5_SproutRootsHeight ==
    last.op = "get_block_sprout_roots_height" =>
        IF last.net = "Mainnet"
        THEN last.result = <<[static |-> "MAINNET_BLOCKS"],
                             [static |-> "MAINNET_FINAL_SPROUT_ROOTS"], 396>>
        ELSE last.result = <<[static |-> "TESTNET_BLOCKS"],
                             [static |-> "TESTNET_FINAL_SPROUT_ROOTS"], 2259>>

\* The composite accessor was called for Testnet.
C5_Witness ==
    /\ last.op = "get_block_sprout_roots_height"
    /\ last.net = "Testnet"
    /\ last.result[3] = 2259

\* C6: no call changes the statics or the consensus parameters, and a method
\* called again with the same arguments returns what it returned before.
C6_Idempotent ==
    [][/\ statics' = statics
       /\ canopyMainnet' = canopyMainnet
       /\ last'.again => last'.result = last.result]_vars

\* The genesis lookup was repeated and found the block both times.
C6_Witness ==
    /\ last.again
    /\ last.op = "get_gen_block"
    /\ last.result # <<>>

\* C7: every network has a first halving height (a height, never an error),
\* and Testnet's is 1,116,000.
C7_FirstHalvingTotal ==
    last.op = "height_for_first_halving" =>
        /\ last.result \in Nat
        /\ last.net = "Testnet" => last.result = 1116000

\* The first halving height was asked for Testnet.
C7_Witness ==
    /\ last.op = "height_for_first_halving"
    /\ last.net = "Testnet"

\* C8: get_gen_block returns the entry at height 0 of the network's own
\* sparse block table (the table get_block_map refers to), None exactly when
\* that table has no entry at height 0, and never the other network's entry
\* or an entry of another height.
C8_GenesisFromOwnTable ==
    last.op = "get_gen_block" =>
        LET own == IF last.net = "Mainnet" THEN statics.MAINNET_BLOCKS
                                           ELSE statics.TESTNET_BLOCKS
            other == IF last.net = "Mainnet" THEN statics.TESTNET_BLOCKS
                                             ELSE statics.MAINNET_BLOCKS
        IN  /\ own = Deref(get_block_map(last.net))
            /\ (last.result = <<>>) <=> (0 \notin DOMAIN own)
            /\ 0 \in DOMAIN own => last.result = <<own[0]>>
            /\ \A h \in DOMAIN other : last.result # <<other[h]>>
            /\ \A h \in (DOMAIN own) \ {0} : last.result # <<own[h]>>

\* Testnet's table has no genesis block while Mainnet's has one, and the
\* lookup for Testnet returned None.
C8_Witness ==
    /\ last.op = "get_gen_block"
    /\ last.net = "Testnet"
    /\ 0 \notin DOMAIN statics.TESTNET_BLOCKS
    /\ 0 \in DOMAIN statics.MAINNET_BLOCKS
    /\ last.result = <<>>

\* C9: the genesis parent hash is 32 zero bytes, for Mainnet and for Testnet.
C9_GenesisParentHashZero ==
    last.op = "GENESIS_PREVIOUS_BLOCK_HASH" =>
        /\ Len(last.result) = 32
        /\ \A i \in 1..Len(last.result) : last.result[i] = 0

\* The genesis parent hash was read for Testnet.
C9_Witness ==
    /\ last.op = "GENESIS_PREVIOUS_BLOCK_HASH"
    /\ last.net = "Testnet"

\* C10: every table-returning accessor selects by the same network family:
\* the block component is always the network's sparse block table, the root
\* component the network's own root table, and the blockchain accessors
\* return the network's continuous chain table, not the sparse one.
C10_SameFamilyTables ==
    LET main == last.net = "Mainnet"
        blocks == IF main THEN "MAINNET_BLOCKS" ELSE "TESTNET_BLOCKS"
        chain == IF main THEN "CONTINUOUS_MAINNET_BLOCKS" ELSE "CONTINUOUS_TESTNET_BLOCKS"
        sapling == IF main THEN "MAINNET_FINAL_SAPLING_ROOTS"
                           ELSE "TESTNET_FINAL_SAPLING_ROOTS"
        sprout == IF main THEN "MAINNET_FINAL_SPROUT_ROOTS"
                          ELSE "TESTNET_FINAL_SPROUT_ROOTS"
    IN  /\ last.op = "get_block_map" => last.result = [static |-> blocks]
        /\ last.op = "get_block_iter" => last.result = Iter(statics[blocks])
        /\ last.op = "get_block_sapling_roots_map" =>
             /\ last.result = <<[static |-> blocks], [static |-> sapling]>>
             /\ last.result[1] = get_block_map(last.net)
        /\ last.op = "get_block_sapling_roots_iter" =>
             /\ last.result = <<Iter(statics[blocks]), statics[sapling]>>
             /\ last.result[1] = get_block_iter(last.net)
        /\ last.op = "get_block_sprout_roots_height" =>
             /\ last.result[1] = [static |-> blocks]
             /\ last.result[2] = [static |-> sprout]
             /\ last.result[1] = get_block_map(last.net)
        /\ last.op = "get_blockchain_map" =>
             /\ last.result = [static |-> chain]
             /\ last.result # get_block_map(last.net)
        /\ last.op = "get_blockchain_iter" => last.result = Iter(statics[chain])

\* The paired map accessor was called for Mainnet.
C10_Witness ==
    /\ last.op = "get_block_sapling_roots_map"
    /\ last.net = "Mainnet"
    /\ last.result[1] = [static |-> "MAINNET_BLOCKS"]

====
